---- MODULE Spec2Model ----
(***************************************************************************)
(* Model of mesh_render.py: the MeshColorizer index <-> colour codec, the   *)
(* cell colour tables, and the MeshRender per-pose rendering loop.          *)
(*                                                                          *)
(* Two specifications share the module's variables:                         *)
(*   Spec        the static methods of MeshColorizer applied to inputs      *)
(*               drawn in Init (one call chain per behaviour);              *)
(*   SpecRender  a constructed MeshRender driven by its public methods.     *)
(***************************************************************************)
EXTENDS Integers, Sequences, FiniteSets, TLC

VARIABLES
    mode,         \* codec: which static method the behaviour exercises
    pc,           \* codec: position in the call chain
    arg,          \* codec: the argument the caller passes
    color,        \* codec: the (r,g,b) returned by index_to_color, <<>> before
    ret,          \* codec: the value returned by the last call, [kind, val]
    idx_img,      \* codec: rgb_img_to_idx_img's local idx_img when it returns
    lighting,     \* render: actor.GetProperty() lighting flag of the mesh
    view_options, \* render: the view options record
    textured_bg,  \* render: renderer's textured background flag
    camera,       \* render: the transform held by the view's shared camera
    frame,        \* render: scene parameters of the view's last render
    rpc,          \* render: position inside render_images, "idle" outside
    image_idx_list, \* render: the pose ids of the reconstruction
    counter,      \* render: loop counter of render_images (0-based)
    files,        \* render: the files written so far, filename -> content
    captures,     \* render: history of every screenshot taken
    calls         \* render: history of the public methods called so far

codec_vars == <<mode, pc, arg, color, ret, idx_img>>
render_vars == <<lighting, view_options, textured_bg, camera, frame, rpc,
                 image_idx_list, counter, files, captures, calls>>
vars == <<mode, pc, arg, color, ret, idx_img, lighting, view_options,
          textured_bg, camera, frame, rpc, image_idx_list, counter, files,
          captures, calls>>

(***************************************************************************)
(* Program constants                                                        *)
(***************************************************************************)
SQUARED_255 == 65025

\* 256^3: the number of (r,g,b) colours with 8-bit components
NumColors == 16777216

\* the largest index whose idx+1 fits in 24 bits
MaxValidIdx == NumColors - 2

(***************************************************************************)
(* Bounds of the model                                                      *)
(***************************************************************************)
\* sampled byte values lie within SampleRadius of 0, 128 and 255
SampleRadius == 1

\* how many indices beyond MaxValidIdx are tried
MaxOver == 2

\* largest cell count for which a colour table is built
MaxCells == 258

\* largest image height and width
MaxH == 2

MaxW == 1

\* largest number of poses of a reconstruction
MaxPoses == 2

\* largest number of public MeshRender methods called in one behaviour
MaxCalls == 3

(***************************************************************************)
(* Python / numpy helpers, computed the way the library computes them       *)
(***************************************************************************)
Min(a, b) == IF a < b THEN a ELSE b

\* the digit characters np.base_repr draws from
DigitChars == <<"0", "1", "2", "3", "4", "5", "6", "7", "8", "9">>

DigitValue(ch) == CHOOSE d \in 0..9 : DigitChars[d + 1] = ch

\* np.base_repr(number, base) for number >= 0: most significant digit first
RECURSIVE base_repr(_, _)
base_repr(number, base) ==
    IF number < base
    THEN <<DigitChars[number + 1]>>
    ELSE Append(base_repr(number \div base, base), DigitChars[(number % base) + 1])

\* str.zfill(width): pad with "0" on the left up to width, never truncate
zfill(s, width) ==
    IF Len(s) >= width
    THEN s
    ELSE [i \in 1..width |->
            IF i <= width - Len(s) THEN "0" ELSE s[i - (width - Len(s))]]

\* Python's s[a:b] for 0 <= a <= b
slice(s, a, b) == SubSeq(s, a + 1, Min(b, Len(s)))

\* int(s, base) for a non-empty digit string
RECURSIVE int(_, _)
int(s, base) ==
    IF Len(s) = 1
    THEN DigitValue(s[1])
    ELSE base * int(SubSeq(s, 1, Len(s) - 1), base) + DigitValue(s[Len(s)])

(***************************************************************************)
(* MeshColorizer                                                            *)
(***************************************************************************)
\* faulty variant: the blue slice repeats the green one
index_to_color_dup_slice(idx) ==
    LET base == 2
        idx_str == zfill(base_repr(idx + 1, base), 24)
        r_str == slice(idx_str, 0, 8)
        g_str == slice(idx_str, 8, 16)
        b_str == slice(idx_str, 8, 16)
    IN  <<int(r_str, base), int(g_str, base), int(b_str, base)>>

\* faulty variant: the digits are read in base 255 arithmetic (the docstring's wording)
index_to_color_base255(idx) ==
    LET v == idx + 1
    IN  <<(v \div SQUARED_255) % 255, (v \div 255) % 255, v % 255>>

index_to_color(idx) ==
    LET base == 2
        idx_str == zfill(base_repr(idx + 1, base), 24)
        r_str == slice(idx_str, 0, 8)
        g_str == slice(idx_str, 8, 16)
        b_str == slice(idx_str, 16, 24)
    IN  <<int(r_str, base), int(g_str, base), int(b_str, base)>>

color_to_index(c) ==
    LET idx == SQUARED_255 * c[1] + 255 * c[2] + c[3]
    IN  idx - (-1)

\* the array idx_img holds when rgb_img_to_idx_img reaches its last line
rgb_img_to_idx_img_local(rgb_image) ==
    [y \in DOMAIN rgb_image |->
        [x \in DOMAIN rgb_image[y] |->
            (rgb_image[y][x][1] * SQUARED_255 + rgb_image[y][x][2] * 255
               + rgb_image[y][x][3]) - 1]]

\* Python's None
None == [kind |-> "None", val |-> <<>>]

\* the function has no return statement: its value is None
rgb_img_to_idx_img(rgb_image) ==
    LET result == rgb_img_to_idx_img_local(rgb_image)
    IN  None

\* uint8 store of numpy: the value modulo 256
uint8(n) == n % 256

\* faulty variant: the loop starts at row 1, row 0 keeps the zeros of np.zeros
make_color_array_skip_first(num_cells) ==
    [i \in 1..num_cells |->
        IF i = 1 THEN <<0, 0, 0>>
        ELSE LET c == index_to_color(i - 1)
             IN  <<uint8(c[1]), uint8(c[2]), uint8(c[3])>>]

\* row i of the array is element i+1 of the sequence
make_color_array(num_cells) ==
    [i \in 1..num_cells |->
        LET c == index_to_color(i - 1)
        IN  <<uint8(c[1]), uint8(c[2]), uint8(c[3])>>]

make_vtk_color_array(num_cells) ==
    [i \in 1..num_cells |->
        LET c == index_to_color(i - 1)
        IN  <<uint8(c[1]), uint8(c[2]), uint8(c[3])>>]

(***************************************************************************)
(* Inputs of the codec specification                                        *)
(***************************************************************************)
SampleBytes ==
    (0..SampleRadius) \cup ((128 - SampleRadius)..(128 + SampleRadius))
      \cup ((255 - SampleRadius)..255)

\* indices whose encoded value idx+1 has sampled bytes, and a few too large
IdxInputs ==
    {v - 1 : v \in {65536 * a + 256 * b + c : a, b, c \in SampleBytes} \ {0}}
      \cup ((MaxValidIdx + 1)..(MaxValidIdx + MaxOver))

ValidIdx == {i \in IdxInputs : i <= MaxValidIdx}

PixelColors ==
    {<<0, 0, 0>>, <<0, 0, 1>>, <<0, 0, 2>>, <<0, 1, 0>>, <<1, 0, 0>>,
     <<255, 255, 255>>}

Images ==
    UNION {[1..h -> [1..w -> PixelColors]] : h \in 1..MaxH, w \in 1..MaxW}

Unset == [kind |-> "unset", val |-> <<>>]

\* the codec specification leaves the MeshRender state alone
RenderIdle ==
    /\ lighting = TRUE
    /\ view_options = [gradient |-> TRUE, orientation |-> TRUE, background |-> <<1, 1, 1>>]
    /\ textured_bg = FALSE
    /\ camera = [pose |-> -1]
    /\ frame = <<>>
    /\ rpc = "idle"
    /\ image_idx_list = <<>>
    /\ counter = 0
    /\ files = <<>>
    /\ captures = <<>>
    /\ calls = <<>>

Init ==
    /\ pc = "call"
    /\ \/ mode = "index" /\ arg \in IdxInputs
       \/ mode = "image" /\ arg \in Images
       \/ mode = "cells" /\ arg \in 0..MaxCells
    /\ color = <<>>
    /\ ret = Unset
    /\ idx_img = <<>>
    /\ RenderIdle

(***************************************************************************)
(* Codec actions: one per static method                                     *)
(***************************************************************************)
Call_index_to_color ==
    /\ mode = "index" /\ pc = "call"
    /\ color' = index_to_color(arg)
    /\ ret' = [kind |-> "tuple", val |-> index_to_color(arg)]
    /\ pc' = "encoded"
    /\ UNCHANGED <<mode, arg, idx_img>>
    /\ UNCHANGED render_vars

\* the caller decodes the colour it got from index_to_color
Call_color_to_index ==
    /\ mode = "index" /\ pc = "encoded"
    /\ ret' = [kind |-> "int", val |-> color_to_index(color)]
    /\ pc' = "decoded"
    /\ UNCHANGED <<mode, arg, color, idx_img>>
    /\ UNCHANGED render_vars

Call_rgb_img_to_idx_img ==
    /\ mode = "image" /\ pc = "call"
    /\ idx_img' = rgb_img_to_idx_img_local(arg)
    /\ ret' = rgb_img_to_idx_img(arg)
    /\ pc' = "image_done"
    /\ UNCHANGED <<mode, arg, color>>
    /\ UNCHANGED render_vars

Call_make_color_array ==
    /\ mode = "cells" /\ pc = "call"
    /\ ret' = [kind |-> "ndarray", val |-> make_color_array(arg)]
    /\ pc' = "array_done"
    /\ UNCHANGED <<mode, arg, color, idx_img>>
    /\ UNCHANGED render_vars

Call_make_vtk_color_array ==
    /\ mode = "cells" /\ pc = "call"
    /\ ret' = [kind |-> "vtkUnsignedCharArray", val |-> make_vtk_color_array(arg)]
    /\ pc' = "vtk_array_done"
    /\ UNCHANGED <<mode, arg, color, idx_img>>
    /\ UNCHANGED render_vars

Next ==
    \/ Call_index_to_color
    \/ Call_color_to_index
    \/ Call_rgb_img_to_idx_img
    \/ Call_make_color_array
    \/ Call_make_vtk_color_array

Spec == Init /\ [][Next]_vars

(***************************************************************************)
(* Claims about the codec (checked under Spec)                              *)
(***************************************************************************)
Encoded == mode = "index" /\ pc \in {"encoded", "decoded"}

\* the colour index_to_color gives each sampled valid index
ColorOf == [j \in ValidIdx |-> index_to_color(j)]

\* C1 (as stated): decoding the colour produced by encoding a valid idx
\* gives idx back: color_to_index(index_to_color(idx)) = idx.
C1_RoundTrip ==
    (mode = "index" /\ pc = "decoded" /\ arg <= MaxValidIdx)
        => (ret.kind = "int" /\ ret.val = arg)

\* C2: two distinct valid indices never get the same colour: the colour
\* returned for the encoded index differs from the colour of every other
\* valid index.
C2_Injective ==
    (Encoded /\ arg <= MaxValidIdx)
        => /\ color = ColorOf[arg]
           /\ \A j \in ValidIdx : j # arg => ColorOf[j] # color

C2_Witness ==
    /\ Encoded /\ pc = "encoded"
    /\ arg = 255 /\ color = <<0, 1, 0>>
    /\ 254 \in ValidIdx /\ ColorOf[254] = <<0, 0, 255>>

\* C3: for a valid idx the colour is the three base-256 digits of idx+1,
\* most significant first, each in 0..255; index 0 gives (0,0,1) and
\* index 256^3 - 2 gives (255,255,255).
C3_Base256Digits ==
    (Encoded /\ arg <= MaxValidIdx)
        => LET v == arg + 1
           IN  /\ color = <<(v \div 65536) % 256, (v \div 256) % 256, v % 256>>
               /\ \A k \in 1..3 : color[k] \in 0..255
               /\ (arg = 0 => color = <<0, 0, 1>>)
               /\ (arg = MaxValidIdx => color = <<255, 255, 255>>)

C3_Witness ==
    Encoded /\ arg = MaxValidIdx /\ color = <<255, 255, 255>>

\* C4 (as stated): encoding an index beyond 256^3 - 2 yields an OutOfRange
\* error and never the colour of a valid index.
C4_OutOfRangeFails ==
    (Encoded /\ arg > MaxValidIdx)
        => /\ ret.kind = "OutOfRange"
           /\ \A j \in ValidIdx : index_to_color(j) # color

\* C5 (as stated): a pixel equal to (0,0,0) is mapped to the background
\* sentinel, so no pixel of the index image equals -1.
C5_NoMinusOne ==
    (mode = "image" /\ pc = "image_done")
        => \A y \in DOMAIN arg : \A x \in DOMAIN arg[y] :
              arg[y][x] = <<0, 0, 0>> => idx_img[y][x] # -1

\* the face indices whose colours occur in the sampled images
PixelIdx == {0, 1, 255, 65535, MaxValidIdx}

\* C6 (as stated): rgb_img_to_idx_img returns an index image of the same
\* height and width in which every pixel coloured index_to_color(i) holds i.
C6_ImageDecodeInverse ==
    (mode = "image" /\ pc = "image_done")
        => /\ ret.kind = "ndarray"
           /\ DOMAIN ret.val = DOMAIN arg
           /\ \A y \in DOMAIN arg :
                /\ DOMAIN ret.val[y] = DOMAIN arg[y]
                /\ \A x \in DOMAIN arg[y] : \A i \in PixelIdx :
                      arg[y][x] = index_to_color(i) => ret.val[y][x] = i

ArrayDone == mode = "cells" /\ pc \in {"array_done", "vtk_array_done"}

\* C9: the table built for N cells has exactly N rows, row i is
\* index_to_color(i), and no row is the background colour (0,0,0).
C9_ColorTable ==
    ArrayDone
        => /\ Len(ret.val) = arg
           /\ \A i \in 0..(arg - 1) :
                /\ ret.val[i + 1] = index_to_color(i)
                /\ ret.val[i + 1] # <<0, 0, 0>>

C9_Witness ==
    /\ ArrayDone /\ pc = "array_done" /\ arg = 3
    /\ ret.val = <<<<0, 0, 1>>, <<0, 0, 2>>, <<0, 0, 3>>>>

(***************************************************************************)
(* MeshRender                                                               *)
(***************************************************************************)
PoseIds == 0..MaxPoses

\* FusionReconstruction.get_image_indices(): the ids of the recorded poses,
\* each id once
get_image_indices ==
    {l \in UNION {[1..n -> PoseIds] : n \in 0..MaxPoses} :
        \A a, b \in DOMAIN l : a # b => l[a] # l[b]}

\* FusionReconstruction.get_camera_to_world(idx): the transform of pose idx
get_camera_to_world(idx) == [pose |-> idx]

\* DatasetStructure.mesh_cells_image_filename(idx): <idx>_mesh_cells.png
mesh_cells_image_filename(idx) == <<"rendered_images/mesh_cells.png", idx>>

\* the file name test() writes to
test_filename == <<"/home/manuelli/code/sandbox/test.png", 0>>

\* what a render of the view shows: the parameters that decide the pixels
Scene(cam, light, vo, tex) ==
    [camera |-> cam, lighting |-> light, background |-> vo.background,
     gradient |-> vo.gradient, orientation |-> vo.orientation, textured |-> tex]

\* the view options disable_lighting leaves behind
lighting_disabled_options(vo) ==
    [vo EXCEPT !.gradient = FALSE, !.orientation = FALSE, !.background = <<0, 0, 0>>]

\* sgp.saveScreenshot(view, filename, shouldRender=True, shouldWrite=True):
\* the RGB screenshot of the freshly rendered view
screenshot(cam, light, vo, tex) ==
    [kind |-> "rgb", scene |-> Scene(cam, light, vo, tex)]

write_file(fs, filename, content) ==
    [f \in DOMAIN fs \cup {filename} |-> IF f = filename THEN content ELSE fs[f]]

\* arguments the caller passes to the public methods
PublicFilenames == {test_filename, mesh_cells_image_filename(0)}

PublicTransforms == {get_camera_to_world(0), [pose |-> -2]}

InitRender ==
    /\ mode = "render" /\ pc = "call" /\ arg = 0
    /\ color = <<>> /\ ret = Unset /\ idx_img = <<>>
    /\ lighting = TRUE
    /\ \E o \in BOOLEAN :
          view_options = [gradient |-> TRUE, orientation |-> o, background |-> <<1, 1, 1>>]
    /\ textured_bg = FALSE
    /\ camera = [pose |-> -1]
    /\ frame = Scene(camera, lighting, view_options, textured_bg)
    /\ rpc = "idle"
    /\ image_idx_list \in get_image_indices
    /\ counter = 0
    /\ files = [f \in {} |-> None]
    /\ captures = <<>>
    /\ calls = <<>>

CanCall == rpc = "idle" /\ Len(calls) < MaxCalls

set_camera_transform(camera_transform) ==
    /\ CanCall
    /\ calls' = Append(calls, "set_camera_transform")
    /\ camera' = camera_transform
    /\ frame' = Scene(camera_transform, lighting, view_options, textured_bg)
    /\ UNCHANGED <<lighting, view_options, textured_bg, rpc, image_idx_list,
                   counter, files, captures>>
    /\ UNCHANGED codec_vars

disable_lighting ==
    /\ CanCall
    /\ calls' = Append(calls, "disable_lighting")
    /\ view_options' = lighting_disabled_options(view_options)
    /\ textured_bg' = FALSE
    /\ lighting' = FALSE
    /\ frame' = Scene(camera, FALSE, lighting_disabled_options(view_options), FALSE)
    /\ UNCHANGED <<camera, rpc, image_idx_list, counter, files, captures>>
    /\ UNCHANGED codec_vars

\* the screenshot render_image takes and writes, as a capture record
Capture(filename, via, call) ==
    [filename |-> filename, via |-> via, call |-> call,
     image |-> screenshot(camera, lighting, view_options, textured_bg)]

render_image(filename) ==
    /\ CanCall
    /\ calls' = Append(calls, "render_image")
    /\ frame' = Scene(camera, lighting, view_options, textured_bg)
    /\ captures' = Append(captures, Capture(filename, "render_image", Len(calls) + 1))
    /\ files' = write_file(files, filename,
                           screenshot(camera, lighting, view_options, textured_bg))
    /\ UNCHANGED <<lighting, view_options, textured_bg, camera, rpc,
                   image_idx_list, counter>>
    /\ UNCHANGED codec_vars

test ==
    /\ CanCall
    /\ calls' = Append(calls, "test")
    /\ frame' = Scene(camera, lighting, view_options, textured_bg)
    /\ captures' = Append(captures, Capture(test_filename, "test", Len(calls) + 1))
    /\ files' = write_file(files, test_filename,
                           screenshot(camera, lighting, view_options, textured_bg))
    /\ UNCHANGED <<lighting, view_options, textured_bg, camera, rpc,
                   image_idx_list, counter>>
    /\ UNCHANGED codec_vars

\* faulty variant: render_images forgets to call disable_lighting
render_images_begin_lit ==
    /\ CanCall
    /\ calls' = Append(calls, "render_images")
    /\ counter' = 0
    /\ rpc' = "loop"
    /\ UNCHANGED <<lighting, view_options, textured_bg, frame, camera,
                   image_idx_list, files, captures>>
    /\ UNCHANGED codec_vars

\* render_images up to the loop: disable_lighting(), then the pose list
render_images_begin ==
    /\ CanCall
    /\ calls' = Append(calls, "render_images")
    /\ view_options' = lighting_disabled_options(view_options)
    /\ textured_bg' = FALSE
    /\ lighting' = FALSE
    /\ frame' = Scene(camera, FALSE, lighting_disabled_options(view_options), FALSE)
    /\ counter' = 0
    /\ rpc' = "loop"
    /\ UNCHANGED <<camera, image_idx_list, files, captures>>
    /\ UNCHANGED codec_vars

\* one iteration, first half: the camera is set to the pose's transform
render_images_set_camera ==
    /\ rpc = "loop" /\ counter < Len(image_idx_list)
    /\ LET idx == image_idx_list[counter + 1]
           camera_to_world == get_camera_to_world(idx)
       IN  /\ camera' = camera_to_world
           /\ frame' = Scene(camera_to_world, lighting, view_options, textured_bg)
    /\ rpc' = "pose_set"
    /\ UNCHANGED <<lighting, view_options, textured_bg, image_idx_list,
                   counter, files, captures, calls>>
    /\ UNCHANGED codec_vars

\* one iteration, second half: render_image(filename) renders, grabs the
\* RGB screenshot and writes it to the pose's file
render_images_render_image ==
    /\ rpc = "pose_set"
    /\ LET idx == image_idx_list[counter + 1]
           filename == mesh_cells_image_filename(idx)
       IN  /\ frame' = Scene(camera, lighting, view_options, textured_bg)
           /\ captures' = Append(captures, Capture(filename, "render_images", Len(calls)))
           /\ files' = write_file(files, filename,
                                  screenshot(camera, lighting, view_options, textured_bg))
    /\ counter' = counter + 1
    /\ rpc' = "loop"
    /\ UNCHANGED <<lighting, view_options, textured_bg, camera,
                   image_idx_list, calls>>
    /\ UNCHANGED codec_vars

\* the loop is exhausted: render_images returns
render_images_return ==
    /\ rpc = "loop" /\ counter >= Len(image_idx_list)
    /\ rpc' = "idle"
    /\ UNCHANGED <<lighting, view_options, textured_bg, camera, frame,
                   image_idx_list, counter, files, captures, calls>>
    /\ UNCHANGED codec_vars

NextRender ==
    \/ \E camera_transform \in PublicTransforms : set_camera_transform(camera_transform)
    \/ disable_lighting
    \/ \E filename \in PublicFilenames : render_image(filename)
    \/ test
    \/ render_images_begin
    \/ render_images_set_camera
    \/ render_images_render_image
    \/ render_images_return

SpecRender == InitRender /\ [][NextRender]_vars

(***************************************************************************)
(* Claims about MeshRender (checked under SpecRender)                       *)
(***************************************************************************)
\* C7 (as stated): whatever public methods are called, no frame is captured
\* while lighting is still enabled.
C7_NoCaptureWhileLit ==
    \A k \in 1..Len(captures) : captures[k].image.scene.lighting = FALSE

\* the last public call is render_images (running, or returned when idle)
LastIsRenderImages ==
    Len(calls) > 0 /\ calls[Len(calls)] = "render_images"

\* the screenshots the last call has taken, oldest first
CallCaptures ==
    SelectSeq(captures, LAMBDA c : c.call = Len(calls))

\* the number of poses the last render_images call has finished
PosesDone == IF rpc = "idle" THEN Len(image_idx_list) ELSE counter

\* the poses are handled in list order, one screenshot per finished pose,
\* taken only after the camera was set and the view rendered for that pose
C8_InOrder ==
    LastIsRenderImages
        => /\ Len(CallCaptures) = PosesDone
           /\ \A k \in 1..PosesDone :
                /\ CallCaptures[k].via = "render_images"
                /\ CallCaptures[k].filename
                      = mesh_cells_image_filename(image_idx_list[k])
           /\ rpc = "pose_set"
                => /\ counter < Len(image_idx_list)
                   /\ camera = get_camera_to_world(image_idx_list[counter + 1])
                   /\ frame.camera = camera

\* C8 (as stated): per pose, in list order, the camera is set, the view is
\* rendered, the RGB buffer captured and decoded, and what is persisted under
\* the pose id is the decoded index image; Done only after all M are saved.
C8_PersistsDecoded ==
    /\ C8_InOrder
    /\ LastIsRenderImages
         => \A k \in 1..PosesDone :
               LET f == mesh_cells_image_filename(image_idx_list[k])
               IN  f \in DOMAIN files /\ files[f].kind = "index_image"

\* the screenshots call n took for pose id idx
CapturesOf(n, idx) ==
    {k \in 1..Len(captures) :
        /\ captures[k].call = n
        /\ captures[k].filename = mesh_cells_image_filename(idx)}

\* C10: every screenshot render_images takes is taken with lighting off and
\* the background (0,0,0), the file of pose idx is captured while the camera
\* holds the transform of idx, and each pose id of the list is captured
\* exactly once per call.
C10_CaptureUnderOwnPose ==
    /\ \A k \in 1..Len(captures) :
          captures[k].via = "render_images"
            => LET sc == captures[k].image.scene
               IN  /\ sc.lighting = FALSE
                   /\ sc.background = <<0, 0, 0>>
                   /\ sc.gradient = FALSE
                   /\ sc.textured = FALSE
                   /\ \E idx \in PoseIds :
                         /\ captures[k].filename = mesh_cells_image_filename(idx)
                         /\ sc.camera = get_camera_to_world(idx)
                         /\ \E p \in 1..Len(image_idx_list) : image_idx_list[p] = idx
    /\ \A n \in 1..Len(calls) :
          calls[n] = "render_images"
            => \A p \in 1..Len(image_idx_list) :
                  Cardinality(CapturesOf(n, image_idx_list[p]))
                     = IF n = Len(calls) /\ rpc # "idle" /\ p > counter THEN 0 ELSE 1

C10_Witness ==
    /\ calls = <<"set_camera_transform", "render_images">> /\ rpc = "idle"
    /\ image_idx_list = <<1, 0>>
    /\ Len(captures) = 2
    /\ captures[1].image.scene.camera = get_camera_to_world(1)
    /\ captures[2].image.scene.camera = get_camera_to_world(0)
    /\ captures[2].image.scene.lighting = FALSE

====
